---- MODULE Spec2Model ----
(***************************************************************************)
(* Model of Strategy.authenticate (src/lib/strategy.ts): the WebAuthn      *)
(* ceremony dispatcher, its registration and authentication paths, the     *)
(* external verifier, the developer functions under both calling           *)
(* conventions, and the terminal signals success / fail / error.           *)
(*                                                                         *)
(* An optional JavaScript value is a set of at most one element: None is   *)
(* `undefined`, Some(v) is the value v.                                    *)
(***************************************************************************)
EXTENDS Integers, Sequences, FiniteSets, TLC

VARIABLES
    options,                  \* StrategyOptions given to the constructor
    registrationFnLength,     \* this.registrationFn.length
    authenticationFnLength,   \* this.authenticationFn.length
    pc,                       \* per invocation: where authenticate() is
    req,                      \* per invocation: the request
    session,                  \* per invocation: what the extractor returned
    registrationResponse,     \* local of the registration path
    userWithAuthenticator,    \* local of the promise-style authentication path
    pending,                  \* in-flight concludeAuthentication calls
    concludeCalls,            \* completion-callback invocations so far
    verifyRegistrationCalls,  \* calls of webauthn.verifyRegistrationResponse
    verifyAuthenticationCalls,\* calls of webauthn.verifyAuthenticationResponse
    registrationFnCalls,      \* calls of this.registrationFn
    authenticationFnCalls,    \* calls of this.authenticationFn
    results,                  \* how the collaborators' calls ended, in order
    signals,                  \* terminal signals emitted, in order
    consoleErrors,            \* values passed to console.error
    rejection                 \* what authenticate()'s promise rejected with

vars == <<options, registrationFnLength, authenticationFnLength, pc, req,
          session, registrationResponse, userWithAuthenticator, pending,
          concludeCalls, verifyRegistrationCalls, verifyAuthenticationCalls,
          registrationFnCalls, authenticationFnCalls, results, signals,
          consoleErrors, rejection>>

-----------------------------------------------------------------------------
(* Bounds *)

\* how many times a callback-style developer function may call its
\* completion callback in one invocation
MaxConclude == 2

-----------------------------------------------------------------------------
(* Values *)

None == {}
Some(v) == {v}
\* the value inside a present optional
The(o) == CHOOSE v \in o : TRUE

\* JavaScript truthiness of an optional object: only undefined is falsy
Truthy(o) == o # None

\* JavaScript truthiness of an optional string: undefined and the empty
\* string are falsy
TruthyString(o) == o # None /\ o # Some("")

\* a ?? b
Coalesce(a, b) == IF a # None THEN a ELSE b

\* invocations of authenticate() that the model follows
Ceremonies == {"A"}

UserIds == {"u1", "u2"}
\* what the extractor can put in session.user
SessionUsers == {[id |-> i, obj |-> "session"] : i \in UserIds}
\* what a developer function can hand back
StoreUsers == {[id |-> i, obj |-> "store"] : i \in UserIds}
\* UserWithAuthenticator values a lookup can produce: the stored user "u2"
\* with its credential record
Pairings ==
    {[user |-> u, authenticator |-> "authenticator-" \o u.id] :
        u \in {x \in StoreUsers : x.id = "u2"}}
Challenges == {"c1", "c2"}
\* clientData.type after JSON.parse; None is a clientDataJSON without `type`
ClientDataTypes == {Some("webauthn.create"), Some("webauthn.get"),
                    Some("webauthn.other"), None}
\* response.userHandle
UserHandles == {None, Some(""), Some("u1"), Some("u2")}
\* req.headers.origin
OriginHeaders == {None, Some("https://header.example")}
Hostname == "host.example"
CredentialId == "cred1"
ExpectedOrigins == {None, Some("https://example.com")}
ExpectedRPID == "localhost"
RegistrationInfos == {"registrationInfo1", "registrationInfo2"}
Errors == {"e1"}
\* the free-form `info` a developer passes to a completion callback
DevInfos == {[message |-> <<"developer info">>]}
\* declared parameter counts of the developer functions
Arities == {3, 4}

\* a request body whose clientDataJSON does not parse, or one that parses:
\* a registration response has no response.userHandle, an assertion may
Requests ==
    [malformed : {TRUE}, type : {None}, userHandle : {None},
     id : {CredentialId}, origin : OriginHeaders, hostname : {Hostname}]
    \cup
    [malformed : {FALSE}, type : ClientDataTypes \ {Some("webauthn.get")},
     userHandle : {None},
     id : {CredentialId}, origin : OriginHeaders, hostname : {Hostname}]
    \cup
    [malformed : {FALSE}, type : {Some("webauthn.get")},
     userHandle : UserHandles,
     id : {CredentialId}, origin : OriginHeaders, hostname : {Hostname}]

SessionDatas ==
    [challenge : Challenges, user : {None} \cup {Some(u) : u \in SessionUsers}]

StrategyOptionsSet ==
    [expectedOrigin : ExpectedOrigins, expectedRPID : {ExpectedRPID}]

-----------------------------------------------------------------------------
(* Terminal signals of the framework: this.success / this.fail / this.error *)

success(user, info) ==
    [kind |-> "success", user |-> user, info |-> info, status |-> None, err |-> None]

fail(info, status) ==
    [kind |-> "fail", user |-> None, info |-> info, status |-> status, err |-> None]

error(err) ==
    [kind |-> "error", user |-> None, info |-> None, status |-> None, err |-> err]

\* an info object { message: ... }; the message is the sequence of the
\* strings concatenated to build it
Message(parts) == Some([message |-> parts])

\* string conversion applied by `'...' + clientData.type`
StringOf(o) == IF o = None THEN "undefined" ELSE The(o)

-----------------------------------------------------------------------------
(* Pure pieces of authenticate *)

\* Branch with the registration test dropped: whatever is not an assertion
\* is taken for a registration
BranchDefaultRegistration(type) ==
    IF type = Some("webauthn.get") THEN "authentication" ELSE "registration"

\* which branch of authenticate a decoded clientData.type selects
Branch(type) ==
    IF type = Some("webauthn.create") THEN "registration"
    ELSE IF type = Some("webauthn.get") THEN "authentication"
    ELSE "unsupported"

\* the fail of the unsupported branch
UnsupportedFail(type) ==
    fail(Message(<<"Unsupported response type: ", StringOf(type)>>), Some(400))

\* the fail of the registration precondition
UserNotInSessionFail == fail(Message(<<"User not in session">>), Some(404))

\* RegistrationFailedFail without its status hint
RegistrationFailedFailNoStatus == fail(Message(<<"Registration failed.">>), None)

\* the fail for a verifier result without registrationInfo
RegistrationFailedFail == fail(Message(<<"Registration failed.">>), Some(500))

\* the fail for a promise-style registration function that yields no user
UserNotFoundFail == fail(Message(<<"User not found">>), Some(404))

UserHandleMismatchFail ==
    fail(Message(<<"User handle does not match session">>), Some(400))

UserHandleNotPresentFail ==
    fail(Message(<<"User handle not present">>), Some(400))

InvalidCredentialFail == fail(Message(<<"Invelid credential">>), Some(400))

VerificationFailedFail ==
    fail(Message(<<"Authenticator verification failed">>), Some(400))

\* this.<fn>.length < 4: the function is awaited; otherwise it is handed a
\* completion callback
\* PromiseStyle that awaits the function whatever its declared arity
PromiseStyleAlways(length) == TRUE

\* fn.length < 4
PromiseStyle(length) == length < 4

\* ExpectedOrigin preferring the request's Origin header to the
\* configured value
ExpectedOriginHeaderFirst(opts, r) ==
    Coalesce(r.origin, Coalesce(opts.expectedOrigin, Some(r.hostname)))

\* this.options.expectedOrigin ?? req.headers.origin ?? req.hostname
ExpectedOrigin(opts, r) ==
    Coalesce(opts.expectedOrigin, Coalesce(r.origin, Some(r.hostname)))

\* the argument object of webauthn.verifyRegistrationResponse
RegistrationVerifierArgs(opts, r, s) ==
    [expectedChallenge |-> s.challenge,
     expectedOrigin |-> ExpectedOrigin(opts, r),
     expectedRPID |-> opts.expectedRPID]

\* AuthenticationVerifierArgs without the session challenge
AuthenticationVerifierArgsNoChallenge(opts, r, s, authenticator) ==
    [authenticator |-> authenticator,
     expectedChallenge |-> "",
     expectedOrigin |-> ExpectedOrigin(opts, r),
     expectedRPID |-> opts.expectedRPID]

\* the argument object of webauthn.verifyAuthenticationResponse
AuthenticationVerifierArgs(opts, r, s, authenticator) ==
    [authenticator |-> authenticator,
     expectedChallenge |-> s.challenge,
     expectedOrigin |-> ExpectedOrigin(opts, r),
     expectedRPID |-> opts.expectedRPID]

\* UserInSession with the test dropped
UserInSessionAlways(user) == TRUE

\* !user of the registration precondition, negated
UserInSession(user) == Truthy(user)

\* HasRegistrationInfo with the test dropped
HasRegistrationInfoAlways(response) == TRUE

\* !registrationResponse.registrationInfo, negated
HasRegistrationInfo(response) == TruthyString(response.registrationInfo)

\* AuthenticationPrecondition falling back to the session user when the
\* assertion has no userHandle
AuthenticationPreconditionSessionFallback(user, userHandle) ==
    IF Truthy(user) /\ TruthyString(userHandle) /\ The(user).id # The(userHandle)
    THEN "mismatch"
    ELSE IF ~TruthyString(userHandle) /\ ~Truthy(user) THEN "notPresent"
    ELSE "ok"

\* AuthenticationPrecondition without the comparison with the session user
AuthenticationPreconditionNoMismatch(user, userHandle) ==
    IF ~TruthyString(userHandle) THEN "notPresent" ELSE "ok"

\* the two preconditions of the authentication path, in the order tested
AuthenticationPrecondition(user, userHandle) ==
    IF Truthy(user) /\ TruthyString(userHandle) /\ The(user).id # The(userHandle)
    THEN "mismatch"
    ELSE IF ~TruthyString(userHandle) THEN "notPresent"
    ELSE "ok"

\* Identity without the fallback to the asserted handle
IdentityNoFallback(user, userHandle) ==
    IF user = None THEN None ELSE Some(The(user).id)

\* user?.id ?? userHandle
Identity(user, userHandle) ==
    Coalesce(IF user = None THEN None ELSE Some(The(user).id), userHandle)

\* RegistrationFnSignal without the test of the returned user
RegistrationFnSignalUnchecked(o) ==
    IF o.err # None THEN error(o.err) ELSE success(o.value, None)

\* the signal the promise-style registration path emits for what the
\* awaited registrationFn produced
RegistrationFnSignal(o) ==
    IF o.err # None THEN error(o.err)
    ELSE IF ~Truthy(o.value) THEN UserNotFoundFail
    ELSE success(o.value, None)

\* concludeRegistration testing the user before the error
concludeRegistrationUserFirst(err, user, info) ==
    IF ~Truthy(user) THEN fail(info, None)
    ELSE IF TruthyString(err) THEN error(err)
    ELSE success(user, info)

\* the signal concludeRegistration(err, user, info) emits
concludeRegistration(err, user, info) ==
    IF TruthyString(err) THEN error(err)
    ELSE IF ~Truthy(user) THEN fail(info, None)
    ELSE success(user, info)

-----------------------------------------------------------------------------
(* State *)

config == <<options, registrationFnLength, authenticationFnLength>>
inputs == <<req, session>>

Init ==
    /\ options \in StrategyOptionsSet
    /\ registrationFnLength \in Arities
    /\ authenticationFnLength \in Arities
    /\ req \in [Ceremonies -> Requests]
    /\ session \in [Ceremonies -> SessionDatas]
    /\ pc = [c \in Ceremonies |-> "start"]
    /\ registrationResponse = [c \in Ceremonies |-> None]
    /\ userWithAuthenticator = [c \in Ceremonies |-> None]
    /\ pending = [c \in Ceremonies |-> {}]
    /\ concludeCalls = [c \in Ceremonies |-> <<>>]
    /\ verifyRegistrationCalls = [c \in Ceremonies |-> <<>>]
    /\ verifyAuthenticationCalls = [c \in Ceremonies |-> <<>>]
    /\ registrationFnCalls = [c \in Ceremonies |-> <<>>]
    /\ authenticationFnCalls = [c \in Ceremonies |-> <<>>]
    /\ results = [c \in Ceremonies |-> <<>>]
    /\ signals = [c \in Ceremonies |-> <<>>]
    /\ consoleErrors = [c \in Ceremonies |-> <<>>]
    /\ rejection = [c \in Ceremonies |-> None]

\* what a step of invocation c does to each piece of the state
Goto(c, label) == pc' = [pc EXCEPT ![c] = label]
Emit(c, signal) == signals' = [signals EXCEPT ![c] = Append(@, signal)]
Reject(c, err) == rejection' = [rejection EXCEPT ![c] = Some(err)]
Settle(c, outcome) == results' = [results EXCEPT ![c] = Append(@, outcome)]
Log(c, value) == consoleErrors' = [consoleErrors EXCEPT ![c] = Append(@, value)]
CallVerifyRegistration(c, args) ==
    verifyRegistrationCalls' = [verifyRegistrationCalls EXCEPT ![c] = Append(@, args)]
CallVerifyAuthentication(c, args) ==
    verifyAuthenticationCalls' = [verifyAuthenticationCalls EXCEPT ![c] = Append(@, args)]
CallRegistrationFn(c, args) ==
    registrationFnCalls' = [registrationFnCalls EXCEPT ![c] = Append(@, args)]
CallAuthenticationFn(c, args) ==
    authenticationFnCalls' = [authenticationFnCalls EXCEPT ![c] = Append(@, args)]

\* how a synchronous call of a callback-style developer function ends: it
\* returns nothing, returns its data or a promise of its data (with values
\* from V; the caller drops the return value), or throws
SyncOutcomes(fn, V) ==
    {[fn |-> fn, how |-> "return", value |-> None, err |-> None]}
    \cup {[fn |-> fn, how |-> h, value |-> Some(x), err |-> None] :
        h \in {"return", "resolve"}, x \in V}
    \cup {[fn |-> fn, how |-> "throw", value |-> None, err |-> Some(e)] : e \in Errors}

\* how an awaited promise-style developer function ends, with values from V:
\* it returns or resolves to a value, throws or rejects, or calls the
\* completion callback it was not handed (calling undefined throws)
AwaitOutcomes(fn, V) ==
    {[fn |-> fn, how |-> h, value |-> v, err |-> None] :
        h \in {"return", "resolve"}, v \in {None} \cup {Some(x) : x \in V}}
    \cup {[fn |-> fn, how |-> h, value |-> None, err |-> Some(e)] :
        h \in {"throw", "reject"}, e \in Errors}
    \cup {[fn |-> fn, how |-> "conclude", value |-> Some(x), err |-> Some("TypeError")] :
        x \in V}

-----------------------------------------------------------------------------
(* authenticate(req), from its entry to its first await or its return *)

Authenticate(c) ==
    /\ pc[c] = "start"
    /\ UNCHANGED <<config, inputs, registrationResponse, userWithAuthenticator,
                   pending, concludeCalls, registrationFnCalls,
                   verifyAuthenticationCalls, consoleErrors>>
    /\ LET r == req[c]
           s == session[c]
           user == s.user
           userHandle == r.userHandle
           lookup(conclude) == [credentialId |-> r.id,
                                userHandle |-> Identity(user, userHandle),
                                conclude |-> conclude]
       IN
       IF r.malformed THEN
          \* JSON.parse throws: the async function rejects
          /\ Goto(c, "rejected")
          /\ Reject(c, "SyntaxError")
          /\ UNCHANGED <<signals, results, verifyRegistrationCalls,
                         authenticationFnCalls>>
       ELSE IF Branch(r.type) = "registration" THEN
          IF ~UserInSession(user) THEN
             /\ Emit(c, UserNotInSessionFail)
             /\ Goto(c, "returned")
             /\ UNCHANGED <<rejection, results, verifyRegistrationCalls,
                            authenticationFnCalls>>
          ELSE
             /\ CallVerifyRegistration(c, RegistrationVerifierArgs(options, r, s))
             /\ Goto(c, "verifyRegistrationResponse")
             /\ UNCHANGED <<rejection, results, signals, authenticationFnCalls>>
       ELSE IF Branch(r.type) = "authentication" THEN
          IF AuthenticationPrecondition(user, userHandle) = "mismatch" THEN
             /\ Emit(c, UserHandleMismatchFail)
             /\ Goto(c, "returned")
             /\ UNCHANGED <<rejection, results, verifyRegistrationCalls,
                            authenticationFnCalls>>
          ELSE IF AuthenticationPrecondition(user, userHandle) = "notPresent" THEN
             /\ Emit(c, UserHandleNotPresentFail)
             /\ Goto(c, "returned")
             /\ UNCHANGED <<rejection, results, verifyRegistrationCalls,
                            authenticationFnCalls>>
          ELSE IF PromiseStyle(authenticationFnLength) THEN
             /\ CallAuthenticationFn(c, lookup(FALSE))
             /\ Goto(c, "authenticationFn")
             /\ UNCHANGED <<rejection, results, signals, verifyRegistrationCalls>>
          ELSE
             \* the call is not guarded: a synchronous throw rejects
             \E o \in SyncOutcomes("authenticationFn", Pairings) :
                /\ CallAuthenticationFn(c, lookup(TRUE))
                /\ Settle(c, o)
                /\ IF o.how = "throw"
                   THEN Goto(c, "rejected") /\ Reject(c, The(o.err))
                   ELSE Goto(c, "returned") /\ UNCHANGED rejection
                /\ UNCHANGED <<signals, verifyRegistrationCalls>>
       ELSE
          /\ Emit(c, UnsupportedFail(r.type))
          /\ Goto(c, "returned")
          /\ UNCHANGED <<rejection, results, verifyRegistrationCalls,
                         authenticationFnCalls>>

-----------------------------------------------------------------------------
(* Registration path *)

\* how webauthn.verifyRegistrationResponse settles: value is the
\* registrationInfo of the result it resolves to
RegistrationVerifierOutcomes ==
    {[fn |-> "verifyRegistrationResponse", how |-> "resolve", value |-> i, err |-> None] :
        i \in {None} \cup {Some(x) : x \in RegistrationInfos}}
    \cup {[fn |-> "verifyRegistrationResponse", how |-> "reject", value |-> None,
           err |-> Some(e)] : e \in Errors}

\* the arguments of this.registrationFn after req
RegistrationFnArgs(s, response, conclude) ==
    [user |-> s.user, registrationInfo |-> response.registrationInfo,
     conclude |-> conclude]

\* the await of verifyRegistrationResponse rejects: it is outside every try
\* block, so authenticate's promise rejects
RegistrationVerifierRejected(c) ==
    /\ pc[c] = "verifyRegistrationResponse"
    /\ UNCHANGED <<config, inputs, registrationResponse, userWithAuthenticator,
                   pending, concludeCalls, verifyRegistrationCalls,
                   verifyAuthenticationCalls, registrationFnCalls,
                   authenticationFnCalls, signals, consoleErrors>>
    /\ \E v \in {x \in RegistrationVerifierOutcomes : x.how = "reject"} :
          /\ Settle(c, v)
          /\ Goto(c, "rejected")
          /\ Reject(c, The(v.err))

\* the continuation of the await of verifyRegistrationResponse, up to the
\* await of the promise-style registrationFn or the return
RegistrationVerified(c) ==
    /\ pc[c] = "verifyRegistrationResponse"
    /\ UNCHANGED <<config, inputs, userWithAuthenticator, pending, concludeCalls,
                   verifyRegistrationCalls, verifyAuthenticationCalls,
                   authenticationFnCalls, consoleErrors>>
    /\ \E v \in {x \in RegistrationVerifierOutcomes : x.how = "resolve"} :
          LET response == [registrationInfo |-> v.value] IN
          /\ registrationResponse' = [registrationResponse EXCEPT ![c] = Some(response)]
          /\ IF ~HasRegistrationInfo(response) THEN
                /\ Settle(c, v)
                /\ Emit(c, RegistrationFailedFail)
                /\ Goto(c, "returned")
                /\ UNCHANGED <<registrationFnCalls, rejection>>
             ELSE IF PromiseStyle(registrationFnLength) THEN
                /\ Settle(c, v)
                /\ CallRegistrationFn(c, RegistrationFnArgs(session[c], response, FALSE))
                /\ Goto(c, "registrationFn")
                /\ UNCHANGED <<signals, rejection>>
             ELSE
                \* the call is not guarded: a synchronous throw rejects
                \E o \in SyncOutcomes("registrationFn", StoreUsers) :
                   /\ results' = [results EXCEPT ![c] = @ \o <<v, o>>]
                   /\ CallRegistrationFn(c, RegistrationFnArgs(session[c], response, TRUE))
                   /\ IF o.how = "throw"
                      THEN Goto(c, "rejected") /\ Reject(c, The(o.err))
                      ELSE Goto(c, "returned") /\ UNCHANGED rejection
                   /\ UNCHANGED signals

\* the continuation of `await this.registrationFn(req, user, registrationInfo)`
\* and the catch block around it
RegistrationFnSettled(c) ==
    /\ pc[c] = "registrationFn"
    /\ UNCHANGED <<config, inputs, registrationResponse, userWithAuthenticator,
                   pending, concludeCalls, verifyRegistrationCalls,
                   verifyAuthenticationCalls, registrationFnCalls,
                   authenticationFnCalls, consoleErrors, rejection>>
    /\ \E o \in AwaitOutcomes("registrationFn", StoreUsers) :
          /\ Settle(c, o)
          /\ Emit(c, RegistrationFnSignal(o))
          /\ Goto(c, "returned")

\* the developer's callback-style registrationFn calls its completion
\* callback, during the call or any time after it
ConcludeRegistration(c) ==
    /\ Len(registrationFnCalls[c]) > 0
    /\ registrationFnCalls[c][1].conclude
    /\ Len(concludeCalls[c]) < MaxConclude
    /\ UNCHANGED <<config, inputs, pc, registrationResponse, userWithAuthenticator,
                   pending, verifyRegistrationCalls, verifyAuthenticationCalls,
                   registrationFnCalls, authenticationFnCalls, results,
                   consoleErrors, rejection>>
    /\ \E err \in {None} \cup {Some(e) : e \in Errors},
          user \in {None} \cup {Some(u) : u \in StoreUsers},
          info \in {None} \cup {Some(i) : i \in DevInfos} :
          /\ concludeCalls' = [concludeCalls EXCEPT
                ![c] = Append(@, [err |-> err, value |-> user, info |-> info])]
          /\ Emit(c, concludeRegistration(err, user, info))

-----------------------------------------------------------------------------
(* Authentication path *)

\* how webauthn.verifyAuthenticationResponse settles: with a truthy or a
\* falsy result, or rejecting
AuthenticationVerifierOutcomes ==
    {[fn |-> "verifyAuthenticationResponse", how |-> "resolve", value |-> Some(b),
      err |-> None] : b \in BOOLEAN}
    \cup {[fn |-> "verifyAuthenticationResponse", how |-> "reject", value |-> None,
           err |-> Some(e)] : e \in Errors}

\* Verified taking any resolved result for a verification
VerifiedWhenResolved(v) == v.how = "resolve"

\* !(await verifyAuthenticator(...)), negated
Verified(v) == v.value = Some(TRUE)

\* verifyAuthenticator reading the challenge from a session shared by all
\* invocations instead of the one its invocation extracted
verifyAuthenticatorSharedSession(c, authenticator) ==
    CallVerifyAuthentication(c,
        AuthenticationVerifierArgs(options, req[c],
            session[CHOOSE d \in DOMAIN session : TRUE], authenticator))

\* verifyAuthenticator(authenticator): the call of the external verifier
verifyAuthenticator(c, authenticator) ==
    CallVerifyAuthentication(c,
        AuthenticationVerifierArgs(options, req[c], session[c], authenticator))

\* the continuation of `await this.authenticationFn(req, body.id, identity)`
\* and the catch block around it
AuthenticationFnSettled(c) ==
    /\ pc[c] = "authenticationFn"
    /\ UNCHANGED <<config, inputs, registrationResponse, pending, concludeCalls,
                   verifyRegistrationCalls, registrationFnCalls,
                   authenticationFnCalls, consoleErrors, rejection>>
    /\ \E o \in AwaitOutcomes("authenticationFn", Pairings) :
          /\ Settle(c, o)
          /\ IF o.err # None THEN
                /\ Emit(c, error(o.err))
                /\ Goto(c, "returned")
                /\ UNCHANGED <<userWithAuthenticator, verifyAuthenticationCalls>>
             ELSE IF ~Truthy(o.value) THEN
                /\ Emit(c, InvalidCredentialFail)
                /\ Goto(c, "returned")
                /\ UNCHANGED <<userWithAuthenticator, verifyAuthenticationCalls>>
             ELSE
                /\ userWithAuthenticator' = [userWithAuthenticator EXCEPT ![c] = o.value]
                /\ verifyAuthenticator(c, The(o.value).authenticator)
                /\ Goto(c, "verifyAuthenticator")
                /\ UNCHANGED signals

\* the continuation of `await verifyAuthenticator(...)` on the promise-style
\* path: the catch block signals the error without logging it
AuthenticatorVerified(c) ==
    /\ pc[c] = "verifyAuthenticator"
    /\ UNCHANGED <<config, inputs, registrationResponse, userWithAuthenticator,
                   pending, concludeCalls, verifyRegistrationCalls,
                   verifyAuthenticationCalls, registrationFnCalls,
                   authenticationFnCalls, consoleErrors, rejection>>
    /\ \E v \in AuthenticationVerifierOutcomes :
          /\ Settle(c, v)
          /\ IF v.how = "reject" THEN Emit(c, error(v.err))
             ELSE IF ~Verified(v) THEN Emit(c, VerificationFailedFail)
             ELSE Emit(c, success(Some(The(userWithAuthenticator[c]).user), None))
          /\ Goto(c, "returned")

\* concludeAuthentication testing the pairing before the error
concludeAuthenticationPairingFirst(err, pairing) ==
    IF ~Truthy(pairing) THEN "fail"
    ELSE IF TruthyString(err) THEN "error"
    ELSE "verify"

\* what concludeAuthentication(err, userWithAuthenticator, info) does first:
\* signal the error, signal a fail, or go on to verify the authenticator
concludeAuthentication(err, pairing) ==
    IF TruthyString(err) THEN "error"
    ELSE IF ~Truthy(pairing) THEN "fail"
    ELSE "verify"

\* the developer's callback-style authenticationFn calls its completion
\* callback: concludeAuthentication up to its await of verifyAuthenticator
ConcludeAuthentication(c) ==
    /\ Len(authenticationFnCalls[c]) > 0
    /\ authenticationFnCalls[c][1].conclude
    /\ Len(concludeCalls[c]) < MaxConclude
    /\ UNCHANGED <<config, inputs, pc, registrationResponse, userWithAuthenticator,
                   verifyRegistrationCalls, registrationFnCalls,
                   authenticationFnCalls, results, consoleErrors, rejection>>
    /\ \E err \in {None} \cup {Some(e) : e \in Errors},
          pairing \in {None} \cup {Some(p) : p \in Pairings},
          info \in {None} \cup {Some(i) : i \in DevInfos} :
          /\ concludeCalls' = [concludeCalls EXCEPT
                ![c] = Append(@, [err |-> err, value |-> pairing, info |-> info])]
          /\ IF concludeAuthentication(err, pairing) = "error" THEN
                /\ Emit(c, error(err))
                /\ UNCHANGED <<pending, verifyAuthenticationCalls>>
             ELSE IF concludeAuthentication(err, pairing) = "fail" THEN
                /\ Emit(c, fail(info, None))
                /\ UNCHANGED <<pending, verifyAuthenticationCalls>>
             ELSE
                /\ verifyAuthenticator(c, The(pairing).authenticator)
                /\ pending' = [pending EXCEPT ![c] = @ \cup
                      {[n |-> Len(concludeCalls[c]) + 1,
                        userWithAuthenticator |-> The(pairing),
                        info |-> info]}]
                /\ UNCHANGED signals

\* the continuation of the await inside one concludeAuthentication call
ConcludeAuthenticationVerified(c) ==
    /\ UNCHANGED <<config, inputs, pc, registrationResponse, userWithAuthenticator,
                   concludeCalls, verifyRegistrationCalls, verifyAuthenticationCalls,
                   registrationFnCalls, authenticationFnCalls, rejection>>
    /\ \E p \in pending[c], v \in AuthenticationVerifierOutcomes :
          /\ pending' = [pending EXCEPT ![c] = @ \ {p}]
          /\ Settle(c, v)
          /\ IF v.how = "reject" THEN
                /\ Log(c, The(v.err))
                /\ Emit(c, error(v.err))
             ELSE IF ~Verified(v) THEN
                /\ Emit(c, VerificationFailedFail)
                /\ UNCHANGED consoleErrors
             ELSE
                /\ Emit(c, success(Some(p.userWithAuthenticator.user), p.info))
                /\ UNCHANGED consoleErrors

-----------------------------------------------------------------------------
(* Specification *)

Next ==
    \E c \in Ceremonies :
        \/ Authenticate(c)
        \/ RegistrationVerifierRejected(c)
        \/ RegistrationVerified(c)
        \/ RegistrationFnSettled(c)
        \/ ConcludeRegistration(c)
        \/ AuthenticationFnSettled(c)
        \/ AuthenticatorVerified(c)
        \/ ConcludeAuthentication(c)
        \/ ConcludeAuthenticationVerified(c)

Spec == Init /\ [][Next]_vars

-----------------------------------------------------------------------------
(* Vocabulary of the properties *)

Range(seq) == {seq[i] : i \in DOMAIN seq}

\* the request of invocation c decoded, and what its clientData.type is
Decoded(c) == ~req[c].malformed
IsRegistration(c) == Decoded(c) /\ req[c].type = Some("webauthn.create")
IsAuthentication(c) == Decoded(c) /\ req[c].type = Some("webauthn.get")
IsUnsupported(c) ==
    Decoded(c) /\ req[c].type \notin {Some("webauthn.create"), Some("webauthn.get")}

\* authenticate has run its synchronous prefix
Started(c) == pc[c] # "start"
\* authenticate's promise has settled
Finished(c) == pc[c] \in {"returned", "rejected"}

\* a fail signal with the given status hint whose message is the given text
IsFail(signal, status, text) ==
    /\ signal.kind = "fail"
    /\ signal.status = Some(status)
    /\ signal.info = Some([message |-> <<text>>])

NoVerifierCall(c) ==
    verifyRegistrationCalls[c] = <<>> /\ verifyAuthenticationCalls[c] = <<>>
NoDeveloperCall(c) ==
    registrationFnCalls[c] = <<>> /\ authenticationFnCalls[c] = <<>>

\* a callback-style developer function was handed a completion callback
CallbackHanded(c) ==
    \/ \E a \in Range(registrationFnCalls[c]) : a.conclude
    \/ \E a \in Range(authenticationFnCalls[c]) : a.conclude

-----------------------------------------------------------------------------
(* C1 *)

\* C1: an invocation of authenticate emits at most one terminal signal
\* (success + fail + error), whatever the verifier and the developer
\* functions do, a completion callback called more than once included.
AtMostOneSignal == \A c \in Ceremonies : Len(signals[c]) <= 1

-----------------------------------------------------------------------------
(* C2 *)

\* every collaborator of invocation c has settled: the request decoded,
\* authenticate's promise has settled, no verification is in flight, and a
\* callback-style developer function has called its completion callback
\* exactly once
CollaboratorsSettled(c) ==
    /\ Decoded(c)
    /\ Finished(c)
    /\ pending[c] = {}
    /\ CallbackHanded(c) => Len(concludeCalls[c]) = 1

\* C2: an invocation whose collaborators have all settled has emitted
\* exactly one terminal signal; none ends with zero signals.
ExactlyOneSignalWhenSettled ==
    \A c \in Ceremonies : CollaboratorsSettled(c) => Len(signals[c]) = 1

-----------------------------------------------------------------------------
(* C3 *)

\* C3: a decoded clientData.type that is neither "webauthn.create" nor
\* "webauthn.get" gives exactly one signal, a fail with status hint 400
\* whose message contains the type string, and neither the verifier nor a
\* developer function is ever invoked.
UnsupportedTypeFails ==
    \A c \in Ceremonies :
        IsUnsupported(c) =>
            /\ NoVerifierCall(c)
            /\ NoDeveloperCall(c)
            /\ Started(c) =>
                  /\ Len(signals[c]) = 1
                  /\ signals[c][1].kind = "fail"
                  /\ signals[c][1].status = Some(400)
                  /\ signals[c][1].info # None
                  /\ StringOf(req[c].type) \in Range(The(signals[c][1].info).message)

UnsupportedTypeWitness ==
    \E c \in Ceremonies :
        /\ IsUnsupported(c)
        /\ req[c].type = Some("webauthn.other")
        /\ session[c].user # None
        /\ pc[c] = "returned"
        /\ Len(signals[c]) = 1

-----------------------------------------------------------------------------
(* C4 *)

\* C4: a registration whose session context has no user gives exactly one
\* signal, fail 404 "User not in session", and the registration verifier and
\* the registration developer function are never invoked.
RegistrationWithoutUserFails ==
    \A c \in Ceremonies :
        (IsRegistration(c) /\ session[c].user = None) =>
            /\ verifyRegistrationCalls[c] = <<>>
            /\ registrationFnCalls[c] = <<>>
            /\ Started(c) =>
                  /\ Len(signals[c]) = 1
                  /\ IsFail(signals[c][1], 404, "User not in session")

RegistrationWithoutUserWitness ==
    \E c \in Ceremonies :
        /\ IsRegistration(c)
        /\ session[c].user = None
        /\ pc[c] = "returned"
        /\ Len(signals[c]) = 1

-----------------------------------------------------------------------------
(* C5 *)

\* C5: on the registration path with a session user, a verifier result
\* without registrationInfo gives fail 500 and no call of the registration
\* developer function; the function is called only after the verifier
\* returned registrationInfo, at most once, with the session user and
\* exactly that registrationInfo.
RegistrationFnNeedsRegistrationInfo ==
    \A c \in Ceremonies :
        /\ (/\ IsRegistration(c)
            /\ session[c].user # None
            /\ registrationResponse[c] = Some([registrationInfo |-> None]))
           => /\ registrationFnCalls[c] = <<>>
              /\ Len(signals[c]) = 1
              /\ signals[c][1].kind = "fail"
              /\ signals[c][1].status = Some(500)
        /\ registrationFnCalls[c] # <<>> =>
              /\ Len(registrationFnCalls[c]) = 1
              /\ registrationResponse[c] # None
              /\ The(registrationResponse[c]).registrationInfo # None
              /\ Len(results[c]) >= 1
              /\ results[c][1].fn = "verifyRegistrationResponse"
              /\ results[c][1].how = "resolve"
              /\ registrationFnCalls[c][1].registrationInfo = results[c][1].value
              /\ registrationFnCalls[c][1].registrationInfo
                    = The(registrationResponse[c]).registrationInfo
              /\ registrationFnCalls[c][1].user # None
              /\ registrationFnCalls[c][1].user = session[c].user

RegistrationInfoMissingWitness ==
    \E c \in Ceremonies :
        /\ IsRegistration(c)
        /\ session[c].user # None
        /\ registrationResponse[c] = Some([registrationInfo |-> None])
        /\ pc[c] = "returned"

RegistrationFnCalledWitness ==
    \E c \in Ceremonies :
        /\ registrationFnCalls[c] # <<>>
        /\ registrationFnCalls[c][1].registrationInfo = Some("registrationInfo2")

-----------------------------------------------------------------------------
(* C6 *)

\* C6: promise-style registration (declared arity below 4), after a
\* verification that yields registrationInfo: when the developer function
\* returns or resolves to a user, the only signal is a success carrying
\* exactly that user, not the session user; when it returns or resolves to
\* nothing, the only signal is fail 404 and there is no success.
PromiseRegistrationResult ==
    \A c \in Ceremonies :
        \A i \in DOMAIN results[c] :
            LET o == results[c][i] IN
            (/\ registrationFnLength < 4
             /\ o.fn = "registrationFn"
             /\ o.how \in {"return", "resolve"})
            => /\ Len(signals[c]) = 1
               /\ IF o.value # None
                  THEN /\ signals[c][1].kind = "success"
                       /\ signals[c][1].user = o.value
                  ELSE /\ signals[c][1].kind = "fail"
                       /\ signals[c][1].status = Some(404)

PromiseRegistrationWitness ==
    \E c \in Ceremonies :
        /\ registrationFnLength < 4
        /\ pc[c] = "returned"
        /\ session[c].user = Some([id |-> "u1", obj |-> "session"])
        /\ Len(results[c]) = 2
        /\ results[c][2].fn = "registrationFn"
        /\ results[c][2].how = "resolve"
        /\ results[c][2].value = Some([id |-> "u1", obj |-> "store"])

-----------------------------------------------------------------------------
(* C7 *)

\* the signal the claim assigns to one completion-callback invocation a
ConcludedAs(signal, a) ==
    IF a.err # None /\ a.err # Some("")
    THEN signal.kind = "error" /\ signal.err = a.err
    ELSE IF a.value = None
    THEN signal.kind = "fail" /\ signal.info = a.info
    ELSE signal.kind = "success" /\ signal.user = a.value /\ signal.info = a.info

\* C7: callback-style registration (declared arity of 4 or more): the i-th
\* invocation of the completion callback with (err, user, info) gives the
\* i-th signal: error(err) for a truthy err whatever user and info are,
\* otherwise fail carrying info for a missing user, otherwise success
\* carrying that user and info.
CallbackRegistrationMapping ==
    \A c \in Ceremonies :
        (registrationFnLength >= 4 /\ registrationFnCalls[c] # <<>>) =>
            /\ Len(signals[c]) = Len(concludeCalls[c])
            /\ \A i \in DOMAIN concludeCalls[c] :
                  ConcludedAs(signals[c][i], concludeCalls[c][i])

CallbackRegistrationWitness ==
    \E c \in Ceremonies :
        /\ registrationFnLength >= 4
        /\ Len(concludeCalls[c]) = 2
        /\ concludeCalls[c][1].err # None
        /\ concludeCalls[c][1].value # None
        /\ concludeCalls[c][1].info # None
        /\ concludeCalls[c][2].err = None
        /\ concludeCalls[c][2].value = None
        /\ signals[c][1].kind = "error"

-----------------------------------------------------------------------------
(* C8 *)

\* the exceptions the collaborators of invocation c raised: a rejected or
\* throwing call, or an error passed to the completion callback
Raised(c) ==
    {o.err : o \in {x \in Range(results[c]) : x.err # None}}
    \cup {a.err : a \in {x \in Range(concludeCalls[c]) : x.err # None}}

\* C8: on the registration path every exception a collaborator raises (the
\* verifier rejecting, a promise-style function throwing or rejecting, a
\* callback-style function throwing synchronously or passing an error to
\* its completion callback) is signalled as error carrying it, and no
\* success or fail is emitted.
RegistrationExceptionsSignalled ==
    \A c \in Ceremonies :
        IsRegistration(c) =>
            \A e \in Raised(c) :
                /\ \E i \in DOMAIN signals[c] :
                      signals[c][i].kind = "error" /\ signals[c][i].err = e
                /\ \A i \in DOMAIN signals[c] : signals[c][i].kind = "error"

-----------------------------------------------------------------------------
(* C9 *)

-----------------------------------------------------------------------------
(* C10 *)

\* C10: an assertion whose userHandle differs from the id of the session
\* user gives exactly one signal, fail 400 "User handle does not match
\* session", and the lookup developer function and the verifier are invoked
\* zero times, under both calling conventions.
UserHandleMismatchFails ==
    \A c \in Ceremonies :
        (/\ IsAuthentication(c)
         /\ session[c].user # None
         /\ req[c].userHandle \notin {None, Some("")}
         /\ The(session[c].user).id # The(req[c].userHandle)) =>
            /\ authenticationFnCalls[c] = <<>>
            /\ NoVerifierCall(c)
            /\ Started(c) =>
                  /\ Len(signals[c]) = 1
                  /\ IsFail(signals[c][1], 400, "User handle does not match session")

UserHandleMismatchWitness ==
    \E c \in Ceremonies :
        /\ IsAuthentication(c)
        /\ authenticationFnLength >= 4
        /\ session[c].user = Some([id |-> "u1", obj |-> "session"])
        /\ req[c].userHandle = Some("u2")
        /\ pc[c] = "returned"
        /\ Len(signals[c]) = 1

-----------------------------------------------------------------------------
(* C11 *)

\* the results of the authentication verifier in invocation c that satisfy P
VerifierResults(c, P(_)) ==
    {i \in DOMAIN results[c] :
        results[c][i].fn = "verifyAuthenticationResponse" /\ P(results[c][i])}

ResolvedFalsy(v) == v.how = "resolve" /\ v.value = Some(FALSE)
ResolvedTruthy(v) == v.how = "resolve" /\ v.value = Some(TRUE)
Rejected(v) == v.how = "reject"

FalsyVerificationPromiseWitness ==
    \E c \in Ceremonies :
        /\ IsAuthentication(c)
        /\ authenticationFnLength < 4
        /\ pc[c] = "returned"
        /\ VerifierResults(c, ResolvedFalsy) # {}

-----------------------------------------------------------------------------
(* C12 *)

\* C12: on the authentication path, under both calling conventions, every
\* value the verifier throws or rejects with is logged and signalled as
\* error carrying it.
VerifierExceptionLoggedAndSignalled ==
    \A c \in Ceremonies :
        IsAuthentication(c) =>
            \A i \in VerifierResults(c, Rejected) :
                /\ The(results[c][i].err) \in Range(consoleErrors[c])
                /\ \E j \in DOMAIN signals[c] :
                      signals[c][j].kind = "error" /\ signals[c][j].err = results[c][i].err

-----------------------------------------------------------------------------
(* C13 *)

\* C13: a promise-style lookup (declared arity below 4) that returns or
\* resolves to no pairing gives exactly one signal, fail 400 with the
\* message "Invalid credential", and the verifier is never invoked.
NoPairingIsInvalidCredential ==
    \A c \in Ceremonies :
        \A i \in DOMAIN results[c] :
            (/\ authenticationFnLength < 4
             /\ results[c][i].fn = "authenticationFn"
             /\ results[c][i].how \in {"return", "resolve"}
             /\ results[c][i].value = None)
            => /\ NoVerifierCall(c)
               /\ Len(signals[c]) = 1
               /\ IsFail(signals[c][1], 400, "Invalid credential")

-----------------------------------------------------------------------------
(* C14 *)

StatusHints == {Some(400), Some(404), Some(500)}

HasMessage(signal) ==
    /\ signal.info # None
    /\ The(signal.info).message # <<>>

\* the completions of invocation c with no error and no user or pairing
EmptyCompletions(c) ==
    {k \in Range(concludeCalls[c]) : ~TruthyString(k.err) /\ ~Truthy(k.value)}

\* C14 as stated: every fail signal, on every path and under both calling
\* conventions, carries a message and a status hint among 400, 404 and 500.
EveryFailHasMessageAndStatus ==
    \A c \in Ceremonies :
        \A i \in DOMAIN signals[c] :
            signals[c][i].kind = "fail" =>
                /\ signals[c][i].status \in StatusHints
                /\ HasMessage(signals[c][i])

\* C14 amended: every fail the strategy builds itself carries a message and
\* a status hint among 400, 404 and 500; a fail without a status hint is the
\* one forwarded from a completion callback invoked with no error and no
\* user or pairing, and it carries exactly the info of that completion.
FailCarriesStatusUnlessForwarded ==
    \A c \in Ceremonies :
        \A i \in DOMAIN signals[c] :
            signals[c][i].kind = "fail" =>
                IF signals[c][i].status # None
                THEN /\ signals[c][i].status \in StatusHints
                     /\ HasMessage(signals[c][i])
                ELSE /\ CallbackHanded(c)
                     /\ \E k \in EmptyCompletions(c) : k.info = signals[c][i].info

ForwardedFailWitness ==
    \E c \in Ceremonies :
        /\ CallbackHanded(c)
        /\ Len(concludeCalls[c]) = 1
        /\ EmptyCompletions(c) # {}
        /\ Len(signals[c]) = 1
        /\ signals[c][1] = fail(None, None)

-----------------------------------------------------------------------------
(* C15 *)

\* the pairings the lookup of invocation c has produced under its convention
YieldedPairings(c) ==
    IF authenticationFnLength < 4
    THEN {The(results[c][i].value) : i \in {j \in DOMAIN results[c] :
              /\ results[c][j].fn = "authenticationFn"
              /\ results[c][j].how \in {"return", "resolve"}
              /\ results[c][j].value # None}}
    ELSE {The(k.value) : k \in {x \in Range(concludeCalls[c]) :
              ~TruthyString(x.err) /\ Truthy(x.value)}}

Successes(c) == {i \in DOMAIN signals[c] : signals[c][i].kind = "success"}

\* C15: on the authentication path every success follows a truthy result of
\* the verifier, invoked with the authenticator of a pairing the lookup
\* produced and with the session challenge, and carries that pairing's user,
\* never the session user object.
SuccessOnlyAfterVerifiedPairing ==
    \A c \in Ceremonies :
        IsAuthentication(c) =>
            /\ Cardinality(Successes(c))
                  = Cardinality(VerifierResults(c, ResolvedTruthy))
            /\ \A i \in Successes(c) :
                  /\ \E p \in YieldedPairings(c) :
                        /\ signals[c][i].user = Some(p.user)
                        /\ \E a \in Range(verifyAuthenticationCalls[c]) :
                              /\ a.authenticator = p.authenticator
                              /\ a.expectedChallenge = session[c].challenge
                  /\ signals[c][i].user # session[c].user

\* scenario C: no session user, userHandle "u2", promise-style lookup
ScenarioCWitness ==
    \E c \in Ceremonies :
        /\ IsAuthentication(c)
        /\ session[c].user = None
        /\ req[c].userHandle = Some("u2")
        /\ authenticationFnLength = 3
        /\ pc[c] = "returned"
        /\ Len(signals[c]) = 1
        /\ signals[c][1].kind = "success"
        /\ The(signals[c][1].user).id = "u2"

-----------------------------------------------------------------------------
(* C16 *)

\* configured value, else Origin header, else hostname
OriginByPrecedence(c) ==
    IF options.expectedOrigin # None THEN options.expectedOrigin
    ELSE IF req[c].origin # None THEN req[c].origin
    ELSE Some(req[c].hostname)

\* C16: on both paths the expected origin handed to the verifier is the
\* configured expectedOrigin when there is one, else the Origin header of
\* the request when present, else the request hostname.
ExpectedOriginPrecedence ==
    \A c \in Ceremonies :
        \A a \in Range(verifyRegistrationCalls[c]) \cup Range(verifyAuthenticationCalls[c]) :
            a.expectedOrigin = OriginByPrecedence(c)

ExpectedOriginRegistrationWitness ==
    \E c \in Ceremonies :
        /\ options.expectedOrigin # None
        /\ req[c].origin # None
        /\ verifyRegistrationCalls[c] # <<>>

ExpectedOriginAuthenticationWitness ==
    \E c \in Ceremonies :
        /\ options.expectedOrigin = None
        /\ req[c].origin # None
        /\ verifyAuthenticationCalls[c] # <<>>

-----------------------------------------------------------------------------
(* C17 *)

\* the results in which developer function fn returned or resolved to data
Returned(c, fn) ==
    {i \in DOMAIN results[c] :
        /\ results[c][i].fn = fn
        /\ results[c][i].how \in {"return", "resolve"}
        /\ results[c][i].value # None}

\* the results in which a developer function that was handed no completion
\* callback called one to deliver its data
CalledMissingConclude(c, fn) ==
    {i \in DOMAIN results[c] :
        results[c][i].fn = fn /\ results[c][i].how = "conclude"}

\* the completions that deliver data: no error, and a user or pairing
Completed(c) ==
    {k \in DOMAIN concludeCalls[c] :
        ~TruthyString(concludeCalls[c][k].err) /\ Truthy(concludeCalls[c][k].value)}

\* authenticate has returned and nothing it started is still awaited
Quiescent(c) == pc[c] = "returned" /\ pending[c] = {}

AuthenticatorsVerified(c) ==
    {verifyAuthenticationCalls[c][i].authenticator : i \in DOMAIN verifyAuthenticationCalls[c]}

Deliveries(c, fn, length) ==
    IF length < 4 THEN Cardinality(Returned(c, fn)) ELSE Cardinality(Completed(c))

-----------------------------------------------------------------------------
(* C18 *)

Last(seq) == seq[Len(seq)]

\* a step in which the completion callback of invocation c is invoked
Completes(c) == Len(concludeCalls'[c]) = Len(concludeCalls[c]) + 1

\* C18: with a callback-style lookup on the authentication path, the
\* verifier is invoked only in a completion with a falsy error and a present
\* pairing, for that pairing's authenticator; a completion with a truthy
\* error emits error(err), a completion with no pairing emits fail carrying
\* info, and neither invokes the verifier.
VerifierOnlyOnCleanCompletion ==
    [][\A c \in Ceremonies :
          (IsAuthentication(c) /\ authenticationFnLength >= 4) =>
             /\ verifyAuthenticationCalls'[c] # verifyAuthenticationCalls[c] =>
                   /\ Completes(c)
                   /\ ~TruthyString(Last(concludeCalls'[c]).err)
                   /\ Truthy(Last(concludeCalls'[c]).value)
                   /\ Len(verifyAuthenticationCalls'[c]) = Len(verifyAuthenticationCalls[c]) + 1
                   /\ Last(verifyAuthenticationCalls'[c]).authenticator
                         = The(Last(concludeCalls'[c]).value).authenticator
             /\ (Completes(c) /\ TruthyString(Last(concludeCalls'[c]).err)) =>
                   /\ signals'[c] = Append(signals[c], error(Last(concludeCalls'[c]).err))
                   /\ verifyAuthenticationCalls'[c] = verifyAuthenticationCalls[c]
             /\ (/\ Completes(c)
                 /\ ~TruthyString(Last(concludeCalls'[c]).err)
                 /\ ~Truthy(Last(concludeCalls'[c]).value)) =>
                   /\ Len(signals'[c]) = Len(signals[c]) + 1
                   /\ Last(signals'[c]).kind = "fail"
                   /\ Last(signals'[c]).info = Last(concludeCalls'[c]).info
                   /\ verifyAuthenticationCalls'[c] = verifyAuthenticationCalls[c]
      ]_vars

\* a completion with both an error and a pairing: error, and no verifier call
ErrorCompletionWitness ==
    \E c \in Ceremonies :
        /\ IsAuthentication(c)
        /\ authenticationFnLength >= 4
        /\ Len(concludeCalls[c]) = 1
        /\ TruthyString(concludeCalls[c][1].err)
        /\ Truthy(concludeCalls[c][1].value)
        /\ Len(signals[c]) = 1
        /\ signals[c][1].kind = "error"
        /\ verifyAuthenticationCalls[c] = <<>>

-----------------------------------------------------------------------------
(* C19 *)

\* C19: every invocation of the lookup receives as identity the asserted
\* userHandle, which is also the id of the session user whenever the
\* session has one.
LookupIdentityIsUserHandle ==
    \A c \in Ceremonies :
        \A a \in Range(authenticationFnCalls[c]) :
            /\ a.userHandle = req[c].userHandle
            /\ session[c].user # None => a.userHandle = Some(The(session[c].user).id)

LookupWithSessionUserWitness ==
    \E c \in Ceremonies :
        /\ session[c].user # None
        /\ authenticationFnCalls[c] # <<>>

-----------------------------------------------------------------------------
(* Two ceremonies on one Strategy *)

\* two invocations of authenticate on the same Strategy object; everything
\* an invocation uses besides this.options and the two developer functions
\* is a local of that invocation or of its closures
ConcurrentCeremonies == {"A", "B"}

\* the well-formed requests of the given ceremony types with the given
\* userHandle and Origin header
CeremonyRequests(types, id, origin) ==
    {r \in Requests :
        /\ ~r.malformed
        /\ r.type \in types
        /\ r.origin = origin
        /\ r.type = Some("webauthn.get") => r.userHandle = Some(id)}

\* the state after construction with two requests about to be processed,
\* a registration or an authentication next to an authentication: each has
\* its own challenge, session user and Origin header
ConcurrentInit ==
    /\ options = [expectedOrigin |-> None, expectedRPID |-> ExpectedRPID]
    /\ registrationFnLength \in Arities
    /\ authenticationFnLength = registrationFnLength
    /\ \E a \in CeremonyRequests({Some("webauthn.create"), Some("webauthn.get")}, "u1", None),
          b \in CeremonyRequests({Some("webauthn.get")}, "u2",
                                 Some("https://header.example")) :
          req = [c \in ConcurrentCeremonies |-> IF c = "A" THEN a ELSE b]
    /\ session = [c \in ConcurrentCeremonies |->
          IF c = "A"
          THEN [challenge |-> "c1", user |-> Some([id |-> "u1", obj |-> "session"])]
          ELSE [challenge |-> "c2", user |-> Some([id |-> "u2", obj |-> "session"])]]
    /\ pc = [c \in ConcurrentCeremonies |-> "start"]
    /\ registrationResponse = [c \in ConcurrentCeremonies |-> None]
    /\ userWithAuthenticator = [c \in ConcurrentCeremonies |-> None]
    /\ pending = [c \in ConcurrentCeremonies |-> {}]
    /\ concludeCalls = [c \in ConcurrentCeremonies |-> <<>>]
    /\ verifyRegistrationCalls = [c \in ConcurrentCeremonies |-> <<>>]
    /\ verifyAuthenticationCalls = [c \in ConcurrentCeremonies |-> <<>>]
    /\ registrationFnCalls = [c \in ConcurrentCeremonies |-> <<>>]
    /\ authenticationFnCalls = [c \in ConcurrentCeremonies |-> <<>>]
    /\ results = [c \in ConcurrentCeremonies |-> <<>>]
    /\ signals = [c \in ConcurrentCeremonies |-> <<>>]
    /\ consoleErrors = [c \in ConcurrentCeremonies |-> <<>>]
    /\ rejection = [c \in ConcurrentCeremonies |-> None]

\* the completions of the two invocations together stay below MaxConclude
CompletionsLeft ==
    Len(concludeCalls["A"]) + Len(concludeCalls["B"]) < MaxConclude

\* the steps of the two invocations, arbitrarily interleaved
ConcurrentNext ==
    \E c \in ConcurrentCeremonies :
        \/ Authenticate(c)
        \/ RegistrationVerifierRejected(c)
        \/ RegistrationVerified(c)
        \/ RegistrationFnSettled(c)
        \/ CompletionsLeft /\ ConcludeRegistration(c)
        \/ AuthenticationFnSettled(c)
        \/ AuthenticatorVerified(c)
        \/ CompletionsLeft /\ ConcludeAuthentication(c)
        \/ ConcludeAuthenticationVerified(c)

ConcurrentSpec == ConcurrentInit /\ [][ConcurrentNext]_vars

-----------------------------------------------------------------------------
(* C20 *)

\* the errors the collaborators and completions of invocation c produced
OwnErrors(c) ==
    {results[c][i].err : i \in DOMAIN results[c]}
    \cup {concludeCalls[c][k].err : k \in DOMAIN concludeCalls[c]}

\* the users the registration function of invocation c delivered
OwnUsers(c) ==
    {results[c][i].value : i \in Returned(c, "registrationFn")}
    \cup {concludeCalls[c][k].value : k \in Completed(c)}

\* C20: with two ceremonies interleaved on one Strategy, each ceremony's
\* verifier calls carry its own challenge and origin, its developer calls
\* its own session user, registration info, credential id and userHandle,
\* its verified authenticators come from its own lookup, and each of its
\* signals comes from a result or completion of its own.
CeremoniesIsolated ==
    \A c \in DOMAIN pc :
        /\ ~Started(c) =>
              /\ signals[c] = <<>> /\ results[c] = <<>> /\ concludeCalls[c] = <<>>
              /\ NoVerifierCall(c) /\ NoDeveloperCall(c)
        /\ \A a \in Range(verifyRegistrationCalls[c]) \cup Range(verifyAuthenticationCalls[c]) :
              /\ a.expectedChallenge = session[c].challenge
              /\ a.expectedOrigin = OriginByPrecedence(c)
        /\ \A a \in Range(verifyAuthenticationCalls[c]) :
              \E p \in YieldedPairings(c) : a.authenticator = p.authenticator
        /\ \A a \in Range(registrationFnCalls[c]) :
              /\ a.user = session[c].user
              /\ a.registrationInfo = The(registrationResponse[c]).registrationInfo
        /\ \A a \in Range(authenticationFnCalls[c]) :
              /\ a.credentialId = req[c].id
              /\ a.userHandle = req[c].userHandle
        /\ Len(signals[c]) <= Len(results[c]) + Len(concludeCalls[c])
        /\ \A i \in DOMAIN signals[c] :
              IF signals[c][i].kind = "error" THEN signals[c][i].err \in OwnErrors(c)
              ELSE IF signals[c][i].kind = "fail" THEN
                 signals[c][i].status = None =>
                    \E k \in EmptyCompletions(c) : k.info = signals[c][i].info
              ELSE IF IsRegistration(c) THEN signals[c][i].user \in OwnUsers(c)
              ELSE /\ VerifierResults(c, ResolvedTruthy) # {}
                   /\ \E p \in YieldedPairings(c) : signals[c][i].user = Some(p.user)

\* the verification of A is in flight while B, started with its own
\* challenge, has already signalled success
InterleavedWitness ==
    /\ DOMAIN pc = ConcurrentCeremonies
    /\ pending["A"] # {}
    /\ Len(signals["B"]) = 1
    /\ signals["B"][1].kind = "success"
    /\ verifyAuthenticationCalls["B"] # <<>>
    /\ verifyAuthenticationCalls["B"][1].expectedChallenge = "c2"

====
